---- MODULE Spec2Model ----
(***************************************************************************)
(* BBLogger: date-partitioned, delimiter-separated log files.              *)
(*                                                                         *)
(* Text is modelled as a sequence of tokens.  A token is a string: the     *)
(* special characters of the CSV dialect ("|" "," "'" CR LF) are tokens of *)
(* their own, every other token is a run of ordinary characters.  Files    *)
(* hold the tokens csv.writer produced; the readers tokenise them again.   *)
(*                                                                         *)
(* The clock counts whole seconds.  A model day has LastSec + 1 seconds;   *)
(* day index d is the calendar day 2024-01-(09+d).                         *)
(***************************************************************************)
EXTENDS Integers, Sequences, FiniteSets, TLC

\* ------------------------------------------------------------------ bounds
MaxLog == 2        \* calls of BBLogger.log in one behaviour
MaxDay == 1        \* the clock runs over the days 0..MaxDay
LastSec == 1       \* seconds 0..LastSec of a day
MaxProc == 2       \* processes that log to the same directory

SecPerDay == LastSec + 1
Times == 0 .. ((MaxDay + 1) * SecPerDay - 1)

VARIABLES
    now,         \* the wall clock, datetime.now()
    last_time,   \* BBLogger._last_time : <<>> for None, <<t>> otherwise
    delta,       \* BBLogger._delta : <<>> for None, <<seconds>> otherwise
    fs,          \* log directory: date part of the file name -> file text
    cfg,         \* BBConfig: the settings the logger reads
    db,          \* the sqlite3 file: whether it exists, has the table, its rows
    hist,        \* history: date part of the file name -> rows log() wrote
    nlog,        \* number of calls of BBLogger.log so far
    res,         \* what the last call did and returned
    proc         \* the other processes: where each is in its call of log()

vars == <<now, last_time, delta, fs, cfg, db, hist, nlog, res, proc>>

\* ------------------------------------------------------------ characters
CR == "\r"
LF == "\n"
QUOTE == "'"

DigitStr == <<"0", "1", "2", "3", "4", "5", "6", "7", "8", "9">>
Digits == {DigitStr[i] : i \in 1..10}

DigitVal(c) == (CHOOSE i \in 1..10 : DigitStr[i] = c) - 1

\* str(n) for a natural number
RECURSIVE IntStr(_)
IntStr(n) == IF n < 10 THEN <<DigitStr[n + 1]>>
             ELSE IntStr(n \div 10) \o <<DigitStr[(n % 10) + 1]>>

\* %d, %m, %H, %M, %S: two digits, zero padded
D2(n) == <<DigitStr[(n \div 10) + 1], DigitStr[(n % 10) + 1]>>

\* int() of a string of digits
RECURSIVE IntVal(_)
IntVal(s) == IF s = <<>> THEN 0
             ELSE 10 * IntVal(SubSeq(s, 1, Len(s) - 1)) + DigitVal(s[Len(s)])

\* str.isdigit()
IsDigit(s) == s # <<>> /\ \A i \in 1..Len(s) : s[i] \in Digits

\* --------------------------------------------------------------- datetime
DayOf(t) == t \div SecPerDay
SecOf(t) == t % SecPerDay

\* day of the month of the day with index d
Dom(d) == 9 + d

\* datetime.strftime('%Y_%m_%d')
strftime_Y_m_d(t) == <<"2", "0", "2", "4", "_", "0", "1", "_">> \o D2(Dom(DayOf(t)))

\* date.strftime('%Y%m%d') of the day with index d
date_strftime_Ymd(d) == <<"2", "0", "2", "4", "0", "1">> \o D2(Dom(d))

\* datetime.strftime('%Y%m%d%H%M%S')
strftime_YmdHMS(t) ==
    date_strftime_Ymd(DayOf(t)) \o <<"0", "0", "0", "0">> \o D2(SecOf(t))

\* datetime.strptime(s, '%Y%m%d%H%M%S') matches s against the regular expression
\*   (\d\d\d\d)(1[0-2]|0[1-9]|[1-9])(3[0-1]|[1-2]\d|0[1-9]|[1-9]| [1-9])
\*   (2[0-3]|[0-1]\d|\d)([0-5]\d|\d)(6[0-1]|[0-5]\d|\d)
\* Every field after the year is two digits or one.  A choice of widths is a
\* number k in 0..31, its five binary digits the fields m, d, H, M, S in this
\* order, 0 for two digits and 1 for one: the matcher tries two digits first
\* and backtracks over the later fields first, so it finds the least k that
\* matches.
FieldWidth(k, f) == IF (k \div (2 ^ (5 - f))) % 2 = 0 THEN 2 ELSE 1

\* where field f starts (f = 6: where the match ends) under the widths k
FieldStart(k, f) ==
    5 + (IF f > 1 THEN FieldWidth(k, 1) ELSE 0) + (IF f > 2 THEN FieldWidth(k, 2) ELSE 0)
      + (IF f > 3 THEN FieldWidth(k, 3) ELSE 0) + (IF f > 4 THEN FieldWidth(k, 4) ELSE 0)
      + (IF f > 5 THEN FieldWidth(k, 5) ELSE 0)

FieldText(s, k, f) == SubSeq(s, FieldStart(k, f), FieldStart(k, f + 1) - 1)

\* the alternatives of field f: the first of each pair is for two digits
FieldValueMatches(f, width, v) ==
    CASE f = 1 -> IF width = 2 THEN v \in 1..12 ELSE v \in 1..9
      [] f = 2 -> IF width = 2 THEN v \in 1..31 ELSE v \in 1..9
      [] f = 3 -> IF width = 2 THEN v \in 0..23 ELSE TRUE
      [] f = 4 -> IF width = 2 THEN v \in 0..59 ELSE TRUE
      [] f = 5 -> IF width = 2 THEN v \in 0..61 ELSE TRUE

FieldMatches(f, text) ==
    IsDigit(text) /\ FieldValueMatches(f, Len(text), IntVal(text))

RegexMatches(s, k) ==
    /\ FieldStart(k, 6) - 1 <= Len(s)
    /\ IsDigit(SubSeq(s, 1, 4))
    /\ \A f \in 1..5 : FieldMatches(f, FieldText(s, k, f))

IsLeap(year) == year % 4 = 0 /\ (year % 100 # 0 \/ year % 400 = 0)

DaysInMonth(year, month) ==
    IF month = 2 THEN (IF IsLeap(year) THEN 29 ELSE 28)
    ELSE IF month \in {4, 6, 9, 11} THEN 30 ELSE 31

\* the clock of the model has the times of January 2024 from 00:00:00 to
\* 00:00:LastSec of every day only; no other time has a value here, and no
\* input of the model denotes one
ClockValue(year, month, day, tod) ==
    IF year = 2024 /\ month = 1 /\ tod <= LastSec
    THEN (day - Dom(0)) * SecPerDay + tod
    ELSE CHOOSE t \in {} : TRUE

\* the choices of widths under which the expression matches a prefix of s;
\* the shortest match has nine characters
WidthChoices(s) ==
    IF RegexMatches(s, 0) THEN {0}
    ELSE IF Len(s) < 9 THEN {}
    ELSE {k \in 1..31 : RegexMatches(s, k)}

Least(ks) == CHOOSE x \in ks : \A y \in ks : x <= y

\* [ok |-> FALSE] stands for ValueError
NotConverted == [ok |-> FALSE, t |-> 0]

\* the datetime of the fields found; complete: the match ended where s ends
Converted(complete, year, month, day, hour, minute, second) ==
    IF \/ ~complete
       \/ year < 1
       \/ day > DaysInMonth(year, month)
       \/ second > 59
    THEN NotConverted
    ELSE [ok |-> TRUE,
          t |-> ClockValue(year, month, day, hour * 3600 + minute * 60 + second)]

FoundFields(s, k) ==
    Converted(FieldStart(k, 6) - 1 = Len(s),
              IntVal(SubSeq(s, 1, 4)), IntVal(FieldText(s, k, 1)),
              IntVal(FieldText(s, k, 2)), IntVal(FieldText(s, k, 3)),
              IntVal(FieldText(s, k, 4)), IntVal(FieldText(s, k, 5)))

FirstMatch(s, ks) == IF ks = {} THEN NotConverted ELSE FoundFields(s, Least(ks))

\* ValueError: no match, unconverted data remains, or the fields are not a
\* date and time
strptime(s) == FirstMatch(s, WidthChoices(s))

\* ------------------------------------------------------------- csv.writer
RECURSIVE Flatten(_)
Flatten(ss) == IF ss = <<>> THEN <<>> ELSE Head(ss) \o Flatten(Tail(ss))

\* sep.join(parts)
RECURSIVE Join(_, _)
Join(parts, sep) ==
    IF parts = <<>> THEN <<>>
    ELSE IF Len(parts) = 1 THEN parts[1]
    ELSE parts[1] \o <<sep>> \o Join(Tail(parts), sep)

\* QUOTE_MINIMAL: a field is quoted when it holds the delimiter, the quote
\* character or a character of the line terminator "\r\n"
NeedsQuote(field, delimiter, quotechar) ==
    \E i \in 1..Len(field) : field[i] \in {delimiter, quotechar, CR, LF}

\* doublequote: the quote character inside a quoted field is written twice
DoubleQuotes(field, quotechar) ==
    Flatten([i \in 1..Len(field) |->
                IF field[i] = quotechar THEN <<quotechar, quotechar>>
                ELSE <<field[i]>>])

QuoteMinimal(field, delimiter, quotechar) ==
    IF NeedsQuote(field, delimiter, quotechar)
    THEN <<quotechar>> \o DoubleQuotes(field, quotechar) \o <<quotechar>>
    ELSE field

\* csv.writer(f, delimiter, quotechar="'", quoting=QUOTE_MINIMAL).writerow(row)
writerow(row, delimiter) ==
    Join([i \in 1..Len(row) |-> QuoteMinimal(row[i], delimiter, QUOTE)], delimiter)
        \o <<CR, LF>>

\* csv.writer(out, delimiter, quotechar='"', quoting=QUOTE_ALL), then strip()
QuoteAll(field, quotechar) ==
    <<quotechar>> \o DoubleQuotes(field, quotechar) \o <<quotechar>>

\* ------------------------------------------------------------- csv.reader
\* open(path, 'r') without newline='': universal newlines, "\r\n" and a lone
\* "\r" are read as "\n"
TextModeRead(text) ==
    LET n == Len(text)
        kept == SelectSeq([i \in 1..n |-> i],
                          LAMBDA i : ~(text[i] = CR /\ i < n /\ text[i + 1] = LF))
    IN  SubSeq([k \in 1..Len(kept) |-> IF text[kept[k]] = CR THEN LF ELSE text[kept[k]]],
               1, Len(kept))

\* the end-of-line mark the reader feeds itself after every line
NUL == "NUL"

SaveField(p) == [p EXCEPT !.row = Append(p.row, p.field), !.field = <<>>]

AddChar(p, c) == [p EXCEPT !.field = Append(p.field, c)]

EndOfLine(p, c) ==
    [SaveField(p) EXCEPT !.state = IF c = NUL THEN "START_RECORD" ELSE "EAT_CRNL"]

\* one character through the reader's state machine (doublequote, not strict)
ProcessChar(p, c, delimiter, quotechar) ==
    CASE p.state = "START_RECORD" /\ c = NUL -> p
      [] p.state = "START_RECORD" /\ c \in {LF, CR} -> [p EXCEPT !.state = "EAT_CRNL"]
      [] p.state \in {"START_RECORD", "START_FIELD"} /\ c \notin {NUL, LF, CR} ->
            IF c = quotechar THEN [p EXCEPT !.state = "IN_QUOTED_FIELD"]
            ELSE IF c = delimiter THEN [SaveField(p) EXCEPT !.state = "START_FIELD"]
            ELSE [AddChar(p, c) EXCEPT !.state = "IN_FIELD"]
      [] p.state = "START_FIELD" /\ c \in {NUL, LF, CR} -> EndOfLine(p, c)
      [] p.state = "IN_FIELD" ->
            IF c \in {NUL, LF, CR} THEN EndOfLine(p, c)
            ELSE IF c = delimiter THEN [SaveField(p) EXCEPT !.state = "START_FIELD"]
            ELSE AddChar(p, c)
      [] p.state = "IN_QUOTED_FIELD" ->
            IF c = NUL THEN p
            ELSE IF c = quotechar THEN [p EXCEPT !.state = "QUOTE_IN_QUOTED_FIELD"]
            ELSE AddChar(p, c)
      [] p.state = "QUOTE_IN_QUOTED_FIELD" ->
            IF c = quotechar THEN [AddChar(p, c) EXCEPT !.state = "IN_QUOTED_FIELD"]
            ELSE IF c = delimiter THEN [SaveField(p) EXCEPT !.state = "START_FIELD"]
            ELSE IF c \in {NUL, LF, CR} THEN EndOfLine(p, c)
            ELSE [AddChar(p, c) EXCEPT !.state = "IN_FIELD"]
      [] p.state = "EAT_CRNL" ->
            IF c \in {LF, CR} THEN p
            ELSE IF c = NUL THEN [p EXCEPT !.state = "START_RECORD"]
            ELSE [p EXCEPT !.state = "ERROR"]
      [] OTHER -> p

\* a record is complete when the machine is back at START_RECORD at a line end
EmitRow(p) ==
    IF p.state = "START_RECORD"
    THEN [p EXCEPT !.rows = Append(p.rows, p.row), !.row = <<>>]
    ELSE p

\* the lines the file object hands to the reader, each with its "\n"
LinesOf(text) ==
    LET n == Len(text)
        ends == SelectSeq([i \in 1..n |-> i], LAMBDA i : text[i] = LF)
        m == Len(ends)
        last == IF m = 0 THEN 0 ELSE ends[m]
        whole == [k \in 1..m |->
                     SubSeq(text, IF k = 1 THEN 1 ELSE ends[k - 1] + 1, ends[k])]
    IN  IF last < n THEN Append(whole, SubSeq(text, last + 1, n)) ELSE whole

\* the characters of one line, from position i on
RECURSIVE ProcessLine(_, _, _, _, _)
ProcessLine(line, i, p, delimiter, quotechar) ==
    IF i > Len(line) \/ p.state = "ERROR" THEN p
    ELSE ProcessLine(line, i + 1, ProcessChar(p, line[i], delimiter, quotechar),
                     delimiter, quotechar)

\* the reader over the lines from line k on: after each line its end-of-line
\* mark; at end of file inside a quoted field the pending field and row are kept
RECURSIVE ReadFrom(_, _, _, _, _)
ReadFrom(lines, k, p, delimiter, quotechar) ==
    IF p.state = "ERROR" THEN p
    ELSE IF k > Len(lines)
    THEN IF p.state = "START_RECORD" THEN p
         ELSE EmitRow([SaveField(p) EXCEPT !.state = "START_RECORD"])
    ELSE ReadFrom(lines, k + 1,
                  EmitRow(ProcessChar(ProcessLine(lines[k], 1, p, delimiter, quotechar),
                                      NUL, delimiter, quotechar)),
                  delimiter, quotechar)

\* list(csv.reader(log_file, delimiter=..., quotechar="'"))
csv_reader(text, delimiter) ==
    ReadFrom(LinesOf(text), 1,
             [state |-> "START_RECORD", field |-> <<>>, row |-> <<>>, rows |-> <<>>],
             delimiter, QUOTE).rows

\* ---------------------------------------------------------------- BBConfig
\* 'log_columns': the header row, one token per column name
log_columns == <<<<"timestamp">>, <<"type">>, <<"process_name">>,
                 <<"source_code_line">>, <<"message">>, <<"exec_time">>>>

Delimiters == {"|", ","}
PageSizes == {1, 2}

Configs ==
    [log_debug_mode : BOOLEAN,
     log_enable_files : BOOLEAN,
     log_enable_terminal_output : BOOLEAN,
     log_enable_database : BOOLEAN,
     log_delimiter : Delimiters,
     log_page_size : PageSizes]

\* ---------------------------------------------------- severity (BBLogger.log)
UpperCase == <<"A", "B", "C", "D", "E", "F", "G", "H", "I", "J", "K", "L", "M",
               "N", "O", "P", "Q", "R", "S", "T", "U", "V", "W", "X", "Y", "Z">>
LowerCase == <<"a", "b", "c", "d", "e", "f", "g", "h", "i", "j", "k", "l", "m",
               "n", "o", "p", "q", "r", "s", "t", "u", "v", "w", "x", "y", "z">>

\* str.lower(), one character after the other
LowerChar(c) ==
    LET ks == {k \in 1..26 : UpperCase[k] = c}
    IN  IF ks = {} THEN c ELSE LowerCase[CHOOSE k \in ks : TRUE]

RECURSIVE lower(_)
lower(s) == IF s = <<>> THEN <<>> ELSE <<LowerChar(Head(s))>> \o lower(Tail(s))

\* word in s
Contains(s, word) ==
    \E i \in 0..(Len(s) - Len(word)) : SubSeq(s, i + 1, i + Len(word)) = word

possible_error_words ==
    <<<<"e", "r", "r", "o", "r">>,
      <<"e", "x", "c", "e", "p", "t", "i", "o", "n">>,
      <<"f", "a", "i", "l", "e", "d">>,
      <<"m", "i", "s", "s", "i", "n", "g">>>>
possible_warning_words ==
    <<<<"w", "a", "r", "n", "i", "n", "g">>,
      <<"a", "w", "a", "r", "e">>,
      <<"c", "a", "r", "e", "f", "u", "l">>>>

is_error_message(message) ==
    LET lowered == lower(message)
    IN  \E k \in 1..Len(possible_error_words) :
            Contains(lowered, possible_error_words[k])

is_warning_message(message) ==
    LET lowered == lower(message)
    IN  \E k \in 1..Len(possible_warning_words) :
            Contains(lowered, possible_warning_words[k])

\* a classification that looks for warnings first
log_type_warning_first(message) ==
    IF is_warning_message(message) THEN <<"warning">>
    ELSE IF is_error_message(message) THEN <<"error">>
    ELSE <<"message">>

log_type_of(message) ==
    IF is_error_message(message) THEN <<"error">>
    ELSE IF is_warning_message(message) THEN <<"warning">>
    ELSE <<"message">>

\* -------------------------------------------------------------- BBLogEntry
\* os.path.splitext(os.path.basename(sys.argv[0]))[0]
process_name == <<"mytest">>

\* "<file>:<line>" of the caller, from traceback.extract_stack()[-2]
caller_location == <<"mytest.py:25">>

BBLogEntry(process, timestamp, log_type, message, processing_time, code_location) ==
    [timestamp |-> timestamp, log_type |-> log_type, process |-> process,
     code_location |-> code_location, message |-> message,
     processing_time |-> processing_time]

\* the list both writers are given
EntryRow(e) ==
    <<e.timestamp, e.log_type, e.process, e.code_location, e.message,
      e.processing_time>>

\* BBLogEntry.__str__: every field quoted with '"', no line end
EntryStr(e) ==
    Join([i \in 1..6 |-> QuoteAll(EntryRow(e)[i], "\"")], cfg.log_delimiter)

\* ------------------------------------------------------ _write_to_log_file
NoFiles == [n \in {} |-> <<>>]

\* a writer that puts the header before every entry
write_header_always(files, log_entry, lt, opened) ==
    LET current_date == strftime_Y_m_d(lt)
        old == IF current_date \in DOMAIN files THEN files[current_date] ELSE <<>>
        text == old \o writerow(log_columns, cfg.log_delimiter)
                    \o writerow(EntryRow(log_entry), cfg.log_delimiter)
    IN  IF opened
        THEN [n \in DOMAIN files \cup {current_date} |->
                 IF n = current_date THEN text ELSE files[n]]
        ELSE files

\* a writer that names the file after the clock at the start of the call
write_to_log_file_at_call(files, log_entry, lt, opened) ==
    LET current_date == strftime_Y_m_d(now)
        file_exists == current_date \in DOMAIN files
        old == IF file_exists THEN files[current_date] ELSE <<>>
        header == IF file_exists THEN <<>>
                  ELSE writerow(log_columns, cfg.log_delimiter)
        text == old \o header \o writerow(EntryRow(log_entry), cfg.log_delimiter)
    IN  IF opened
        THEN [n \in DOMAIN files \cup {current_date} |->
                 IF n = current_date THEN text ELSE files[n]]
        ELSE files

\* a writer that opens the file with mode 'w'
write_to_log_file_truncating(files, log_entry, lt, opened) ==
    LET current_date == strftime_Y_m_d(lt)
        text == writerow(log_columns, cfg.log_delimiter)
                    \o writerow(EntryRow(log_entry), cfg.log_delimiter)
    IN  IF opened
        THEN [n \in DOMAIN files \cup {current_date} |->
                 IF n = current_date THEN text ELSE files[n]]
        ELSE files

\* a file of the log directory is named by the date part of its name:
\* <log_path>/<log_prefix>_log_<date>.log
\* `opened` is whether open(log_file_path, 'a+') succeeded (IOError otherwise)
write_to_log_file(files, log_entry, lt, opened) ==
    LET current_date == strftime_Y_m_d(lt)
        file_exists == current_date \in DOMAIN files
        old == IF file_exists THEN files[current_date] ELSE <<>>
        header == IF file_exists THEN <<>>
                  ELSE writerow(log_columns, cfg.log_delimiter)
        text == old \o header \o writerow(EntryRow(log_entry), cfg.log_delimiter)
    IN  IF opened
        THEN [n \in DOMAIN files \cup {current_date} |->
                 IF n = current_date THEN text ELSE files[n]]
        ELSE files

\* the history variable follows the rows written
RecordWrite(h, log_entry, lt, opened) ==
    LET current_date == strftime_Y_m_d(lt)
        old == IF current_date \in DOMAIN h THEN h[current_date] ELSE <<>>
    IN  IF opened
        THEN [n \in DOMAIN h \cup {current_date} |->
                 IF n = current_date THEN Append(old, EntryRow(log_entry)) ELSE h[n]]
        ELSE h

\* ------------------------------------- _initialize_database, _write_to_database
NoDb == [exists |-> FALSE, table |-> FALSE, rows |-> <<>>]

initialize_database(d) ==
    IF ~d.exists THEN [exists |-> TRUE, table |-> TRUE, rows |-> <<>>] ELSE d

\* INSERT INTO logs: sqlite3.OperationalError when the table is missing
write_to_database(d, log_entry) ==
    IF d.table
    THEN [ok |-> TRUE, db |-> [d EXCEPT !.exists = TRUE,
                                        !.rows = Append(d.rows, EntryRow(log_entry))]]
    ELSE [ok |-> FALSE, db |-> [d EXCEPT !.exists = TRUE]]

\* ------------------------------------------------------------ the last call
NoRes ==
    [op |-> "none", arg |-> <<>>, exc |-> "", cols |-> <<>>, rows |-> <<>>,
     ts |-> <<>>, n |-> 0, out |-> <<>>, sent |-> <<>>, printed |-> <<>>,
     visited |-> <<>>]

Result(op, arg) == [NoRes EXCEPT !.op = op, !.arg = arg]

\* The program is single-threaded and every call runs to completion: the caller
\* makes its next call after it has taken the result of the last one.
Idle == res.op = "none"

\* --------------------------------------------------------------- BBLogger.log
\* str(cls._delta.total_seconds()) if cls._delta else '0': a zero timedelta is
\* false
processing_time_of(d) ==
    IF d # <<>> /\ d[1] # 0 THEN IntStr(d[1]) \o <<".", "0">> ELSE <<"0">>

\* the destinations requested, in the order log() goes through them
Requested(telegram, slack, url_notification) ==
    (IF telegram THEN <<"log_notification_telegram">> ELSE <<>>)
    \o (IF slack THEN <<"log_notification_slack">> ELSE <<>>)
    \o (IF url_notification THEN <<"log_notification_url">> ELSE <<>>)

\* what the except branches print: the file that could not be written, then
\* the destinations that could not be reached
Reports(to_file, opened, attempts) ==
    (IF to_file /\ ~opened THEN <<<<"Failed to write to log file">>>> ELSE <<>>)
    \o [i \in 1..Len(SelectSeq(attempts, LAMBDA a : ~a.ok)) |->
           <<"Failed to send log to", SelectSeq(attempts, LAMBDA a : ~a.ok)[i].url>>]

\* a logger that does not look at the switch
log_debug_mode_ignored == TRUE

\* if BBConfig.get('log_debug_mode')
log_debug_mode == cfg.log_debug_mode

\* n2 is the clock at the second datetime.now() of the call; `opened` whether the
\* log file could be opened; `failing` the destinations whose POST fails
Log(message, telegram, slack, url_notification, n2, opened, failing) ==
    /\ Idle
    /\ nlog < MaxLog
    /\ nlog' = nlog + 1
    /\ UNCHANGED <<cfg, proc>>
    /\ IF ~log_debug_mode
       THEN /\ res' = Result("log", <<message, telegram, slack, url_notification>>)
            /\ UNCHANGED <<now, last_time, delta, fs, db, hist>>
       ELSE LET d == IF last_time # <<>> THEN <<now - last_time[1]>> ELSE <<>>
                log_entry == BBLogEntry(process_name, strftime_YmdHMS(n2),
                                        log_type_of(message), message,
                                        processing_time_of(d), caller_location)
                to_file == cfg.log_enable_files
                wdb == IF cfg.log_enable_database
                       THEN write_to_database(initialize_database(db), log_entry)
                       ELSE [ok |-> TRUE, db |-> db]
                dests == Requested(telegram, slack, url_notification)
                attempts == IF wdb.ok
                            THEN [i \in 1..Len(dests) |->
                                     [url |-> dests[i],
                                      json |-> log_entry,
                                      ok |-> dests[i] \notin failing]]
                            ELSE <<>>
            IN  /\ delta' = d
                /\ last_time' = <<n2>>
                /\ now' = n2
                /\ fs' = IF to_file THEN write_to_log_file(fs, log_entry, n2, opened)
                         ELSE fs
                /\ hist' = IF to_file THEN RecordWrite(hist, log_entry, n2, opened)
                           ELSE hist
                /\ db' = wdb.db
                /\ res' = [Result("log", <<message, telegram, slack, url_notification>>)
                              EXCEPT
                             !.rows = <<EntryRow(log_entry)>>,
                             !.exc = IF wdb.ok THEN "" ELSE "OperationalError",
                             !.out = IF cfg.log_enable_terminal_output
                                     THEN EntryStr(log_entry) ELSE <<>>,
                             !.sent = attempts,
                             !.printed = Reports(to_file, opened, attempts)]

Return ==
    /\ res.op # "none"
    /\ res' = NoRes
    /\ UNCHANGED <<now, last_time, delta, fs, cfg, db, hist, nlog, proc>>

\* the clock moves on between calls
Tick ==
    /\ Idle
    /\ now + 1 \in Times
    /\ now' = now + 1
    /\ UNCHANGED <<last_time, delta, fs, cfg, db, hist, nlog, res, proc>>

\* ------------------------------------------------------------ the queries
\* Files that exist can be read; every file of the model is one log() wrote.

Min(a, b) == IF a < b THEN a ELSE b

\* lst[start:end] of Python, 0-based, end excluded, both clipped to the list
Slice(lst, start, end) == SubSeq(lst, start + 1, Min(end, Len(lst)))

\* list(reader) and the header test shared by get_page, get_logs_in_range and
\* get_total_amount_of_pages: logs[0] == BBConfig.get('log_columns')
ReadLogs(text) == csv_reader(TextModeRead(text), cfg.log_delimiter)

HasHeaderRow(logs) == logs # <<>> /\ logs[1] = log_columns

\* a reader that keeps the header row
KeepHeader(logs) == logs

StripHeader(logs) == IF HasHeaderRow(logs) THEN Tail(logs) ELSE logs

\* a division that rounds down
FloorDiv(total, page_size) == total \div page_size

\* (total_logs + page_size - 1) // page_size
CeilDiv(total, page_size) == (total + page_size - 1) \div page_size

\* a first index that is one page too far
page_start_next(page_num, page_size) == page_num * page_size

\* start_index = (page_num - 1) * page_size
page_start(page_num, page_size) == (page_num - 1) * page_size

\* a validation that lets every page number past the last through
invalid_page_clamped(page_num, total_pages) == page_num < 1

\* if page_num < 1 or page_num > total_pages: raise ValueError
invalid_page(page_num, total_pages) == page_num < 1 \/ page_num > total_pages

\* BBLogger.get_page(page_num) at clock t
get_page(files, t, page_num) ==
    LET current_date == strftime_Y_m_d(t)
        r == Result("get_page", <<page_num>>)
    IN  IF current_date \notin DOMAIN files
        THEN [r EXCEPT !.exc = "FileNotFoundError"]
        ELSE LET logs == StripHeader(ReadLogs(files[current_date]))
                 page_size == cfg.log_page_size
                 total_pages == CeilDiv(Len(logs), page_size)
                 start_index == page_start(page_num, page_size)
                 end_index == start_index + page_size
             IN  IF invalid_page(page_num, total_pages)
                 THEN [r EXCEPT !.exc = "ValueError", !.n = total_pages]
                 ELSE [r EXCEPT !.cols = log_columns,
                                !.rows = Slice(logs, start_index, end_index),
                                !.n = total_pages]

\* 'YYYYMMDD' -> 'YYYY_MM_DD'
formatted_date(date) ==
    SubSeq(date, 1, 4) \o <<"_">> \o SubSeq(date, 5, 6) \o <<"_">>
        \o SubSeq(date, 7, Len(date))

\* a file name built as read_logs_from_date builds it
range_file_date_formatted(date) ==
    IF Len(date) = 8 THEN formatted_date(date) ELSE date

\* the date part of the file name get_logs_in_range opens: f"..._log_{date}.log"
range_file_date(date) == date

\* if start_line < 1 or end_line > len(logs) or start_line > end_line:
\* raise ValueError
invalid_range(start_line, end_line, total) ==
    start_line < 1 \/ end_line > total \/ start_line > end_line

\* BBLogger.get_logs_in_range(date, start_line, end_line)
get_logs_in_range(files, date, start_line, end_line) ==
    LET r == Result("get_logs_in_range", <<date, start_line, end_line>>)
        name == range_file_date(date)
    IN  IF name \notin DOMAIN files
        THEN [r EXCEPT !.exc = "FileNotFoundError"]
        ELSE LET all == ReadLogs(files[name])
                 logs == StripHeader(all)
             IN  IF invalid_range(start_line, end_line, Len(logs))
                 THEN [r EXCEPT !.exc = "ValueError", !.n = Len(logs)]
                 ELSE [r EXCEPT !.cols = IF HasHeaderRow(all) THEN all[1] ELSE <<>>,
                                !.rows = Slice(logs, start_line - 1, end_line),
                                !.n = Len(logs)]

\* a count that is 0 for every missing file, today's too
total_pages_lenient(files, t, date) ==
    LET name == IF date = <<>> THEN strftime_Y_m_d(t) ELSE date[1]
        r == Result("get_total_amount_of_pages", date)
    IN  IF name \notin DOMAIN files THEN [r EXCEPT !.n = 0]
        ELSE [r EXCEPT !.n = CeilDiv(Len(StripHeader(ReadLogs(files[name]))),
                                     cfg.log_page_size)]

\* BBLogger.get_total_amount_of_pages(date): date is <<>> for None at clock t
get_total_amount_of_pages(files, t, date) ==
    LET is_today == date = <<>>
        name == IF is_today THEN strftime_Y_m_d(t) ELSE date[1]
        r == Result("get_total_amount_of_pages", date)
    IN  IF name \notin DOMAIN files
        THEN IF is_today THEN [r EXCEPT !.exc = "Exception"]
             ELSE [r EXCEPT !.n = 0]
        ELSE [r EXCEPT !.n = CeilDiv(Len(StripHeader(ReadLogs(files[name]))),
                                     cfg.log_page_size)]

\* f.readline().strip(): the first line without surrounding white space
FirstLine(text) ==
    LET t == TextModeRead(text)
        ends == {i \in 1..Len(t) : t[i] = LF}
        last == IF ends = {} THEN Len(t)
                ELSE (CHOOSE i \in ends : \A j \in ends : i <= j) - 1
        line == SubSeq(t, 1, last)
        blank == {" ", "\t", LF, CR}
        keep == {i \in 1..Len(line) : line[i] \notin blank}
    IN  IF keep = {} THEN <<>>
        ELSE SubSeq(line, CHOOSE i \in keep : \A j \in keep : i <= j,
                          CHOOSE i \in keep : \A j \in keep : i >= j)

\* pd.read_csv(path, delimiter, quotechar="'", header=0 or None, names=...):
\* the records of the file, blank lines skipped; with header=0 the first record
\* names the columns, otherwise the names given do and every record is data
read_csv(text, has_header) ==
    LET recs == SelectSeq(csv_reader(text, cfg.log_delimiter), LAMBDA x : x # <<>>)
    IN  IF has_header
        THEN [cols |-> recs[1], rows |-> Tail(recs)]
        ELSE [cols |-> log_columns, rows |-> recs]

\* BBLogger.read_logs_from_date(date)
read_logs_from_date(files, date) ==
    LET r == Result("read_logs_from_date", <<date>>)
    IN  IF Len(date) # 8 \/ ~IsDigit(date)
        THEN [r EXCEPT !.exc = "ValueError"]
        ELSE IF formatted_date(date) \notin DOMAIN files
        THEN [r EXCEPT !.exc = "FileNotFoundError"]
        ELSE LET text == files[formatted_date(date)]
                 has_header == FirstLine(text) = Join(log_columns, ",")
                 df == read_csv(text, has_header)
             IN  [r EXCEPT !.cols = df.cols, !.rows = df.rows]

\* position of the column named `name`, 0 when there is none (KeyError)
ColumnIndex(cols, name) ==
    IF \E i \in 1..Len(cols) : cols[i] = name
    THEN CHOOSE i \in 1..Len(cols) : cols[i] = name
    ELSE 0

\* a filter that forgets the upper bound
InIntervalNoEnd(t, dt1, dt2) == t >= dt1

\* (timestamp >= dt1) & (timestamp <= dt2)
InInterval(t, dt1, dt2) == t >= dt1 /\ t <= dt2

\* a list of the days that runs backwards
date_list_descending(first, last) ==
    [i \in 1..(last - first + 1) |-> date_strftime_Ymd(last - i + 1)]

\* the days from dt1.date() to dt2.date(), each as 'YYYYMMDD'
date_list_of(first, last) ==
    [i \in 1..(last - first + 1) |-> date_strftime_Ymd(first + i - 1)]

\* BBLogger.get_logs_between_timestampt_and_timestampt(t1, t2)
get_logs_between(files, t1, t2) ==
    LET r == Result("get_logs_between", <<t1, t2>>)
        dt1 == strptime(t1)
        dt2 == strptime(t2)
    IN  IF ~dt1.ok \/ ~dt2.ok THEN [r EXCEPT !.exc = "ValueError"]
        ELSE IF dt1.t > dt2.t THEN [r EXCEPT !.exc = "ValueError"]
        ELSE
        LET date_list == date_list_of(DayOf(dt1.t), DayOf(dt2.t))
            reads == [i \in 1..Len(date_list) |->
                         read_logs_from_date(files, date_list[i])]
            \* FileNotFoundError: the day is skipped, and this is printed
            log_dfs == SelectSeq(reads, LAMBDA x : x.exc = "")
            skipped == SelectSeq(reads, LAMBDA x : x.exc # "")
            notes == [i \in 1..Len(skipped) |->
                         <<"Log file does not exist. Skipping.", skipped[i].arg[1]>>]
            rd == [r EXCEPT !.visited = date_list]
        IN  IF log_dfs = <<>>
            THEN [rd EXCEPT !.printed = Append(notes, <<"No log entries found">>)]
            ELSE
            LET \* pd.concat(log_dfs, ignore_index=True)
                cols == log_dfs[1].cols
                all_logs == Flatten([i \in 1..Len(log_dfs) |-> log_dfs[i].rows])
                c == ColumnIndex(cols, <<"timestamp">>)
                \* pd.to_datetime(column, format='%Y%m%d%H%M%S') fails when one
                \* value of the column does not parse
                converts == /\ c # 0
                            /\ \A i \in 1..Len(all_logs) : strptime(all_logs[i][c]).ok
                mask(row) == InInterval(strptime(row[c]).t, dt1.t, dt2.t)
                filtered == SelectSeq(all_logs, mask)
            IN  IF ~converts
                THEN [rd EXCEPT !.printed =
                                    Append(notes, <<"Failed to convert 'timestamp'">>)]
                ELSE [rd EXCEPT !.printed = notes,
                                !.cols = cols,
                                !.rows = filtered,
                                !.ts = [i \in 1..Len(filtered) |->
                                           strptime(filtered[i][c]).t]]

\* ------------------------------------------------------------------ inputs
PlainMessage == <<"o", "k">>
QuotedMessage == <<"f", "a", "i", "l", "e", "d", "|", ",", "'", LF, "x">>
Messages == {PlainMessage, QuotedMessage}

\* pieces of messages for the severity heuristics; a keyword may sit in one
\* piece or across two
MaxPieces == 3
Pieces ==
    {<<"e", "r", "r", "o", "r">>,
     <<"E", "X", "C", "E", "P", "T", "I", "O", "N">>,
     <<"F", "a", "i", "l">>,
     <<"e", "d">>,
     <<"M", "i", "s", "s", "i", "n", "g">>,
     <<"W", "a", "r", "n", "i", "n", "g">>,
     <<"a", "w", "a", "r", "e">>,
     <<"c", "a", "r", "e">>,
     <<"f", "u", "l">>,
     <<"o", "k">>,
     <<" ">>}

RECURSIVE MessagesOf(_)
MessagesOf(n) ==
    IF n = 0 THEN {<<>>}
    ELSE MessagesOf(n - 1) \cup {m \o p : m \in MessagesOf(n - 1), p \in Pieces}

\* the messages of at most MaxPieces pieces
PieceMessages == MessagesOf(MaxPieces)

PageNums == 0 .. (MaxLog + 1)
Lines == 0 .. (MaxLog + 1)
Days == 0 .. MaxDay

\* a day with no log file
NoSuchDay == <<"1", "9", "9", "9", "0", "1", "0", "1">>

\* the days of the model in both spellings, 'YYYYMMDD' and 'YYYY_MM_DD'
DayArgs ==
    {date_strftime_Ymd(d) : d \in Days}
        \cup {strftime_Y_m_d(d * SecPerDay) : d \in Days}

DateArgs == DayArgs \cup {NoSuchDay}

\* not a timestamp, not a date
Malformed == <<"2", "0", "2", "4", "x">>
Timestamps == {strftime_YmdHMS(t) : t \in Times}

\* every interval of the model's clock, one pair in the wrong order, and
\* malformed arguments
TimestampArgs ==
    {<<strftime_YmdHMS(p[1]), strftime_YmdHMS(p[2])>> :
        p \in {q \in Times \X Times : q[2] >= q[1] - 1}}
        \cup {<<Malformed, strftime_YmdHMS(0)>>, <<strftime_YmdHMS(0), Malformed>>}

\* a timestamp of the clock written with a one-digit second, 13 characters
ShortSecond(t) == SubSeq(strftime_YmdHMS(t), 1, 12) \o <<strftime_YmdHMS(t)[14]>>

\* arguments that are not 14-digit timestamps of a real date and time: too
\* short, too long, month 13, 29 February 2023, second 60, a letter, nothing
NotTimestamps ==
    {<<"2", "0", "2", "4", "0", "1", "9", "0", "0", "0", "0", "0", "0">>,
     <<"2", "0", "2", "4", "0", "1", "0", "9", "0", "0", "0", "0", "0", "0", "0">>,
     <<"2", "0", "2", "4", "1", "3", "0", "1", "0", "0", "0", "0", "0", "0">>,
     <<"2", "0", "2", "3", "0", "2", "2", "9", "0", "0", "0", "0", "0", "0">>,
     <<"2", "0", "2", "4", "0", "1", "0", "9", "0", "0", "0", "0", "6", "0">>,
     <<"2", "0", "2", "4", "0", "1", "0", "9", "0", "0", "0", "0", "0", "x">>,
     <<>>}
        \cup {ShortSecond(t) : t \in Times}

AnyTimestampArgs ==
    (Timestamps \cup NotTimestamps) \X (Timestamps \cup NotTimestamps)

\* every range of lines, and start_line = end_line + 1
LineArgs == {q \in Lines \X Lines : q[2] >= q[1] - 1}

\* what log() may find at log_sqlite3_path: no file, a database with the logs
\* table, a file without it
DbStates ==
    {NoDb,
     [exists |-> TRUE, table |-> TRUE, rows |-> <<>>],
     [exists |-> TRUE, table |-> FALSE, rows |-> <<>>]}

\* the three flags of log() and the destinations whose POST fails, taken among
\* the destinations requested
NotifyArgs ==
    {a \in BOOLEAN \X BOOLEAN \X BOOLEAN
            \X SUBSET {"log_notification_telegram", "log_notification_slack",
                       "log_notification_url"} :
        \A u \in a[4] : \E i \in 1..Len(Requested(a[1], a[2], a[3])) :
            Requested(a[1], a[2], a[3])[i] = u}

\* ----------------------------------------------------------------- actions
Unchanged == UNCHANGED <<now, last_time, delta, fs, cfg, db, hist, nlog, proc>>

\* log(message) with every choice of the environment: the clock may move on
\* between the two datetime.now() of the call, the file may fail to open
LogAny ==
    \E message \in Messages, n2 \in {now, now + 1} \cap Times, opened \in BOOLEAN :
        Log(message, FALSE, FALSE, FALSE, n2, opened, {})

\* log(message) within one second, the file opening
LogFile ==
    \E message \in Messages : Log(message, FALSE, FALSE, FALSE, now, TRUE, {})

\* the same with the one message that needs quoting
LogQuoted == Log(QuotedMessage, FALSE, FALSE, FALSE, now, TRUE, {})

\* the same with the messages made of pieces
LogPieces ==
    /\ Idle
    /\ \E message \in PieceMessages :
           Log(message, FALSE, FALSE, FALSE, now, TRUE, {})

\* log('ok') within one second, the file opening
LogPlain == Idle /\ Log(PlainMessage, FALSE, FALSE, FALSE, now, TRUE, {})

\* log('ok', telegram, slack, url_notification) with every choice of the
\* environment: the clock, the file, the destinations
LogNotify ==
    /\ Idle
    /\ \E a \in NotifyArgs, n2 \in {now, now + 1} \cap Times, opened \in BOOLEAN :
           Log(PlainMessage, a[1], a[2], a[3], n2, opened, a[4])

\* log('ok') with no flag or every flag set, the file opening or not
LogSwitch ==
    /\ Idle
    /\ \E flag \in BOOLEAN, opened \in BOOLEAN :
           Log(PlainMessage, flag, flag, flag, now, opened, {})

\* the setting log_debug_mode is read at every call and may change between two
Reconfigure ==
    /\ Idle
    /\ cfg' = [cfg EXCEPT !.log_debug_mode = ~@]
    /\ UNCHANGED <<now, last_time, delta, fs, db, hist, nlog, res, proc>>

GetPage ==
    \E page_num \in PageNums :
        Idle /\ res' = get_page(fs, now, page_num) /\ Unchanged

GetLogsInRange ==
    \E date \in DayArgs, lines \in LineArgs :
        Idle /\ res' = get_logs_in_range(fs, date, lines[1], lines[2]) /\ Unchanged

GetTotalAmountOfPages ==
    \E date \in {<<>>} \cup {<<d>> : d \in DateArgs} :
        Idle /\ res' = get_total_amount_of_pages(fs, now, date) /\ Unchanged

ReadLogsFromDate ==
    \E date \in DateArgs \cup {Malformed} :
        Idle /\ res' = read_logs_from_date(fs, date) /\ Unchanged

GetLogsBetween ==
    \E ts \in TimestampArgs :
        Idle /\ res' = get_logs_between(fs, ts[1], ts[2]) /\ Unchanged

\* the same with arguments of every shape
GetLogsBetweenAnyArgs ==
    /\ Idle
    /\ \E ts \in AnyTimestampArgs :
           res' = get_logs_between(fs, ts[1], ts[2]) /\ Unchanged

\* ------------------------------------------------------ several processes
\* Independent processes run the same program on the same log directory.  A
\* process has its own _last_time; the files are shared.  The steps of a call
\* that touch the directory are steps of their own: the test
\* os.path.isfile(log_file_path), open(log_file_path, 'a+'), and the writes that
\* empty the buffer of the file object.  A write on a file opened for appending
\* puts its bytes at the end of the file in one piece.  The header and the
\* entry leave the buffer together when the file is closed, or one after the
\* other when the buffer does not hold both.
Procs == 1 .. MaxProc

NoCall ==
    [pc |-> "idle", file_exists |-> FALSE, current_date |-> <<>>,
     log_entry |-> <<>>, last_time |-> <<>>]

NoProcs == [p \in Procs |-> NoCall]

\* a write that replaces what the file holds
os_write_over(files, name, data) == [files EXCEPT ![name] = data]

\* write() on a descriptor opened with O_APPEND
os_write(files, name, data) == [files EXCEPT ![name] = @ \o data]

\* what process p logs: the processes differ in it
MessageOf(p) == IF p % 2 = 1 THEN PlainMessage ELSE QuotedMessage

\* log() up to the call of _write_to_log_file, and its first statements
BeginLog(p) ==
    /\ proc[p].pc = "idle"
    /\ nlog < MaxLog
    /\ cfg.log_debug_mode /\ cfg.log_enable_files
    /\ LET message == MessageOf(p)
           d == IF proc[p].last_time # <<>>
                    THEN <<now - proc[p].last_time[1]>> ELSE <<>>
           current_date == strftime_Y_m_d(now)
       IN  proc' = [proc EXCEPT ![p] =
               [pc |-> "checked",
                file_exists |-> current_date \in DOMAIN fs,
                current_date |-> current_date,
                log_entry |-> BBLogEntry(process_name, strftime_YmdHMS(now),
                                         log_type_of(message), message,
                                         processing_time_of(d), caller_location),
                last_time |-> <<now>>]]
    /\ nlog' = nlog + 1
    /\ UNCHANGED <<now, last_time, delta, fs, cfg, db, hist, res>>

\* open(log_file_path, 'a+') makes the file when there is none
OpenFile(p) ==
    /\ proc[p].pc = "checked"
    /\ fs' = IF proc[p].current_date \in DOMAIN fs THEN fs
             ELSE [n \in DOMAIN fs \cup {proc[p].current_date} |->
                      IF n \in DOMAIN fs THEN fs[n] ELSE <<>>]
    /\ proc' = [proc EXCEPT ![p].pc = "opened"]
    /\ UNCHANGED <<now, last_time, delta, cfg, db, hist, nlog, res>>

RowWritten(h, name, row) ==
    [n \in DOMAIN h \cup {name} |->
        IF n = name THEN Append(IF name \in DOMAIN h THEN h[name] ELSE <<>>, row)
        ELSE h[n]]

\* the buffer leaves in one write when the file is closed
WriteAll(p) ==
    /\ proc[p].pc = "opened"
    /\ LET header == IF proc[p].file_exists THEN <<>>
                     ELSE writerow(log_columns, cfg.log_delimiter)
           row == EntryRow(proc[p].log_entry)
       IN  /\ fs' = os_write(fs, proc[p].current_date,
                             header \o writerow(row, cfg.log_delimiter))
           /\ hist' = RowWritten(hist, proc[p].current_date, row)
    /\ proc' = [proc EXCEPT ![p] = [NoCall EXCEPT !.last_time = proc[p].last_time]]
    /\ UNCHANGED <<now, last_time, delta, cfg, db, nlog, res>>

\* the header leaves the buffer before the entry
WriteHeader(p) ==
    /\ proc[p].pc = "opened"
    /\ ~proc[p].file_exists
    /\ fs' = os_write(fs, proc[p].current_date,
                      writerow(log_columns, cfg.log_delimiter))
    /\ proc' = [proc EXCEPT ![p].pc = "header"]
    /\ UNCHANGED <<now, last_time, delta, cfg, db, hist, nlog, res>>

WriteRow(p) ==
    /\ proc[p].pc = "header"
    /\ LET row == EntryRow(proc[p].log_entry)
       IN  /\ fs' = os_write(fs, proc[p].current_date, writerow(row, cfg.log_delimiter))
           /\ hist' = RowWritten(hist, proc[p].current_date, row)
    /\ proc' = [proc EXCEPT ![p] = [NoCall EXCEPT !.last_time = proc[p].last_time]]
    /\ UNCHANGED <<now, last_time, delta, cfg, db, nlog, res>>

\* the processes that are in a call of log()
InFlight == {p \in Procs : proc[p].pc # "idle"}

\* the clock moves between the calls: calls that overlap begin in the same
\* second
TickBetweenCalls == InFlight = {} /\ Tick

ProcStep ==
    \E p \in Procs :
        BeginLog(p) \/ OpenFile(p) \/ WriteAll(p) \/ WriteHeader(p) \/ WriteRow(p)

\* ---------------------------------------------------------- specifications
Start ==
    /\ now = 0
    /\ last_time = <<>>
    /\ delta = <<>>
    /\ fs = NoFiles
    /\ hist = NoFiles
    /\ db = NoDb
    /\ nlog = 0
    /\ res = NoRes
    /\ proc = NoProcs

\* logging to files only: no terminal echo, no database
FileConfigs ==
    {c \in Configs : ~c.log_enable_terminal_output /\ ~c.log_enable_database}

\* logging switched on, to files
Logging == {c \in FileConfigs : c.log_debug_mode /\ c.log_enable_files}

\* the append path
InitAppend == Start /\ cfg \in FileConfigs
NextAppend == LogAny \/ Tick \/ Return
SpecAppend == InitAppend /\ [][NextAppend]_vars

\* severity: the entry is echoed, nothing is stored
InitSeverity ==
    Start /\ cfg \in {c \in Configs : /\ c.log_debug_mode
                                      /\ ~c.log_enable_files
                                      /\ c.log_enable_terminal_output
                                      /\ ~c.log_enable_database
                                      /\ c.log_delimiter = "|"
                                      /\ c.log_page_size = 1}
NextSeverity == LogPieces \/ Return
SpecSeverity == InitSeverity /\ [][NextSeverity]_vars

\* get_page and get_total_amount_of_pages
InitPages == Start /\ cfg \in Logging
NextPages == LogFile \/ Tick \/ Return \/ GetPage \/ GetTotalAmountOfPages
SpecPages == InitPages /\ [][NextPages]_vars

\* get_logs_in_range, with the default delimiter
InitRange ==
    Start /\ cfg \in {c \in Logging : c.log_delimiter = "|" /\ c.log_page_size = 1}
NextRange == LogFile \/ Tick \/ Return \/ GetLogsInRange
SpecRange == InitRange /\ [][NextRange]_vars

\* read_logs_from_date and get_logs_between_timestampt_and_timestampt
InitRead == Start /\ cfg \in {c \in Logging : c.log_page_size = 1}
NextRead == LogFile \/ Tick \/ Return \/ ReadLogsFromDate \/ GetLogsBetween
SpecRead == InitRead /\ [][NextRead]_vars

\* get_logs_between_timestampt_and_timestampt over entries that need quoting
NextBetween == LogQuoted \/ Tick \/ Return \/ GetLogsBetween
SpecBetween == InitRead /\ [][NextBetween]_vars

\* get_page and get_logs_in_range on files with rows and on a file that holds
\* the header only, as a write that failed after the header leaves it
InitErrors ==
    /\ now = 0
    /\ last_time = <<>>
    /\ delta = <<>>
    /\ db = NoDb
    /\ nlog = 0
    /\ res = NoRes
    /\ proc = NoProcs
    /\ cfg \in {c \in Logging : c.log_delimiter = "|" /\ c.log_page_size = 2}
    /\ fs \in {NoFiles,
               [n \in {strftime_Y_m_d(0)} |-> writerow(log_columns, cfg.log_delimiter)]}
    /\ hist = [n \in DOMAIN fs |-> <<>>]
NextErrors == LogPlain \/ Tick \/ Return \/ GetPage \/ GetLogsInRange
SpecErrors == InitErrors /\ [][NextErrors]_vars

\* the write path with every output: file, terminal, database, notifications
InitWrite ==
    /\ now = 0
    /\ last_time = <<>>
    /\ delta = <<>>
    /\ fs = NoFiles
    /\ hist = NoFiles
    /\ db \in DbStates
    /\ nlog = 0
    /\ res = NoRes
    /\ proc = NoProcs
    /\ cfg \in {c \in Configs : c.log_delimiter = "|" /\ c.log_page_size = 1}
NextWrite == LogNotify \/ Tick \/ Return
SpecWrite == InitWrite /\ [][NextWrite]_vars

\* logging switched off and on between calls
NextSwitch == LogSwitch \/ Tick \/ Return \/ Reconfigure
SpecSwitch == InitWrite /\ [][NextSwitch]_vars

\* get_logs_between_timestampt_and_timestampt with arguments of every shape
NextArgs == LogPlain \/ Tick \/ Return \/ GetLogsBetweenAnyArgs
SpecArgs == InitRead /\ [][NextArgs]_vars

\* every operation, with file storage on and off; each query is called with
\* arguments it accepts and with arguments it rejects
LogOpened ==
    /\ Idle
    /\ \E message \in Messages, opened \in BOOLEAN :
           Log(message, FALSE, FALSE, FALSE, now, opened, {})

GetPageSample ==
    /\ Idle
    /\ \E page_num \in {0, 1} : res' = get_page(fs, now, page_num)
    /\ Unchanged

GetTotalAmountOfPagesSample ==
    /\ Idle
    /\ \E date \in {<<>>, <<date_strftime_Ymd(DayOf(now))>>} :
           res' = get_total_amount_of_pages(fs, now, date)
    /\ Unchanged

GetLogsInRangeSample ==
    /\ Idle
    /\ \E end_line \in {0, 1} :
           res' = get_logs_in_range(fs, strftime_Y_m_d(now), 1, end_line)
    /\ Unchanged

ReadLogsFromDateSample ==
    /\ Idle
    /\ \E date \in {date_strftime_Ymd(DayOf(now)), NoSuchDay} :
           res' = read_logs_from_date(fs, date)
    /\ Unchanged

GetLogsBetweenSample ==
    /\ Idle
    /\ \E t1 \in {strftime_YmdHMS(0), Malformed} :
           res' = get_logs_between(fs, t1, strftime_YmdHMS(now))
    /\ Unchanged

InitFrame ==
    Start /\ cfg \in {c \in FileConfigs : c.log_debug_mode /\ c.log_page_size = 1}
NextFrame ==
    \/ LogOpened \/ Tick \/ Return
    \/ GetPageSample \/ GetTotalAmountOfPagesSample \/ GetLogsInRangeSample
    \/ ReadLogsFromDateSample \/ GetLogsBetweenSample
SpecFrame == InitFrame /\ [][NextFrame]_vars

\* log() with a clock that moves between its two readings, also over midnight
InitMidnight == Start /\ cfg \in {c \in Logging : c.log_page_size = 1}
NextMidnight == LogAny \/ Tick \/ Return
SpecMidnight == InitMidnight /\ [][NextMidnight]_vars

\* processes that log to the same directory at the same time
InitProcs == Start /\ cfg \in {c \in Logging : c.log_page_size = 1}
NextProcs == ProcStep \/ TickBetweenCalls
SpecProcs == InitProcs /\ [][NextProcs]_vars

\* every operation, every configuration
Init == Start /\ cfg \in Configs
Next ==
    \/ LogAny \/ Tick \/ Return
    \/ GetPage \/ GetTotalAmountOfPages \/ GetLogsInRange
    \/ ReadLogsFromDate \/ GetLogsBetween
Spec == Init /\ [][Next]_vars

\* ------------------------------------------------------------------ claims
\* the file name append uses for day d, and the rows it wrote there
PartitionOf(d) == strftime_Y_m_d(d * SecPerDay)

Written(d) == IF PartitionOf(d) \in DOMAIN hist THEN hist[PartitionOf(d)] ELSE <<>>

\* the clock value a written row carries in its first field
TimeOfRow(row) ==
    CHOOSE t \in Times : strftime_YmdHMS(t) = row[1]

\* C1: with the default delimiter "|", read_logs_from_date(day as YYYYMMDD)
\* returns exactly the rows appended to that day's file, in order, field by
\* field, and never the header row.
C1_RoundTrip ==
    (res.op = "read_logs_from_date" /\ res.exc = "" /\ cfg.log_delimiter = "|")
        => res.rows = hist[formatted_date(res.arg[1])]

\* the interval of a get_logs_between call that did not raise
BetweenFrom == strptime(res.arg[1]).t
BetweenTo == strptime(res.arg[2]).t
BetweenReturned == res.op = "get_logs_between" /\ res.exc = ""

\* C2: get_logs_between(t1, t2) returns every row written to a file of a day
\* from t1's to t2's whose timestamp lies in [t1, t2].
C2_Complete ==
    BetweenReturned =>
        \A d \in DayOf(BetweenFrom) .. DayOf(BetweenTo) :
            \A i \in 1..Len(Written(d)) :
                (TimeOfRow(Written(d)[i]) \in BetweenFrom .. BetweenTo)
                    => \E j \in 1..Len(res.rows) : res.rows[j] = Written(d)[i]

\* C3: every row get_logs_between(t1, t2) returns carries a timestamp t with
\* t1 <= t <= t2 and is a row written to the file of a day from t1's to t2's;
\* the header row is never returned.
C3_Sound ==
    BetweenReturned =>
        \A j \in 1..Len(res.rows) :
            /\ BetweenFrom <= res.ts[j] /\ res.ts[j] <= BetweenTo
            /\ strftime_YmdHMS(res.ts[j]) = res.rows[j][1]
            /\ res.rows[j] # log_columns
            /\ \E d \in DayOf(BetweenFrom) .. DayOf(BetweenTo) :
                   \E i \in 1..Len(Written(d)) : Written(d)[i] = res.rows[j]

\* a call that returned a row at a bound of the interval and left out a row the
\* same days hold
C3_Witness ==
    /\ BetweenReturned
    /\ \E j \in 1..Len(res.rows) : res.ts[j] \in {BetweenFrom, BetweenTo}
    /\ \E d \in DayOf(BetweenFrom) .. DayOf(BetweenTo) :
           \E i \in 1..Len(Written(d)) :
               TimeOfRow(Written(d)[i]) \notin BetweenFrom .. BetweenTo

\* the file get_page reads, and the rows written to it
Today == strftime_Y_m_d(now)

TodayRows == IF Today \in DOMAIN hist THEN hist[Today] ELSE <<>>

\* the least number of pages of p rows that hold k rows
PagesFor(k, p) == CHOOSE n \in 0..k : n * p >= k /\ (n = 0 \/ (n - 1) * p < k)

\* C4: for today's file with k >= 1 rows and page size p, the pages
\* 1..totalPages put end to end are the k rows written, in order; every page but
\* the last has p rows, the last between 1 and p; no page holds the header.
C4_Pagination ==
    (res.op = "get_page" /\ Len(TodayRows) >= 1) =>
        LET p == cfg.log_page_size
            k == Len(TodayRows)
            T == PagesFor(k, p)
            page(n) == get_page(fs, now, n)
        IN  /\ res = page(res.arg[1])
            /\ \A n \in 1..T :
                   LET pg == page(n)
                   IN  /\ pg.exc = ""
                       /\ Len(pg.rows) = IF n < T THEN p ELSE k - (T - 1) * p
                       /\ \A i \in 1..Len(pg.rows) : pg.rows[i] # log_columns
            /\ k - (T - 1) * p \in 1..p
            /\ Flatten([n \in 1..T |-> page(n).rows]) = TodayRows

\* a second page was returned
C4_Witness ==
    /\ res.op = "get_page" /\ res.exc = ""
    /\ res.arg[1] >= 2 /\ res.rows # <<>>
    /\ res.rows[1] = TodayRows[(res.arg[1] - 1) * cfg.log_page_size + 1]

\* the file a get_total_amount_of_pages call names
TotalPagesFile == IF res.arg = <<>> THEN Today ELSE res.arg[1]

C6_TodayFails ==
    (res.op = "get_total_amount_of_pages" /\ TotalPagesFile \notin DOMAIN hist) =>
        IF res.arg = <<>> \/ res.arg[1] \in {Today, date_strftime_Ymd(DayOf(now))}
        THEN res.exc = "Exception"
        ELSE res.exc = "" /\ res.n = 0

\* C6: get_total_amount_of_pages fails when the date is left out and today's
\* file is missing; with a date given it returns 0 for a missing file, today's
\* included.
C6_Asymmetry ==
    (res.op = "get_total_amount_of_pages" /\ TotalPagesFile \notin DOMAIN hist) =>
        IF res.arg = <<>>
        THEN res.exc = "Exception"
        ELSE res.exc = "" /\ res.n = 0

\* the call without a date failed while another day has a file
C6_Witness ==
    /\ res.op = "get_total_amount_of_pages" /\ res.arg = <<>>
    /\ res.exc = "Exception"
    /\ DOMAIN hist # {}

\* the lines a get_logs_in_range call asks for
RangeCall == res.op = "get_logs_in_range"
RangeStart == res.arg[2]
RangeEnd == res.arg[3]

\* C7 as stated: get_logs_in_range(YYYYMMDD, s, e) finds the file append wrote
\* for that day and returns its rows s..e.
C7_DayKey ==
    RangeCall =>
        \A d \in Days :
            (/\ res.arg[1] = date_strftime_Ymd(d)
             /\ 1 <= RangeStart /\ RangeStart <= RangeEnd
             /\ RangeEnd <= Len(Written(d)))
                => /\ res.exc = ""
                   /\ res.rows = SubSeq(Written(d), RangeStart, RangeEnd)

\* C7: get_logs_in_range finds the file append wrote for a day when the date is
\* spelled as in the file name, YYYY_MM_DD, and returns its rows s..e; the
\* 8-digit spelling YYYYMMDD names no file, and the call fails with not-found.
C7_FileName ==
    RangeCall =>
        \A d \in Days :
            /\ (/\ res.arg[1] = PartitionOf(d)
                /\ 1 <= RangeStart /\ RangeStart <= RangeEnd
                /\ RangeEnd <= Len(Written(d)))
                   => /\ res.exc = ""
                      /\ res.rows = SubSeq(Written(d), RangeStart, RangeEnd)
            /\ res.arg[1] = date_strftime_Ymd(d) => res.exc = "FileNotFoundError"

\* the second row of a day's file was returned for the date spelled YYYY_MM_DD
C7_Witness ==
    /\ RangeCall /\ res.exc = ""
    /\ RangeStart = 2
    /\ \E d \in Days : res.arg[1] = PartitionOf(d) /\ res.rows = <<Written(d)[2]>>

\* C8: when the file named by the date exists and holds k rows written, then for
\* 1 <= s <= e <= k get_logs_in_range returns e - s + 1 rows, the rows written
\* at positions s..e in order; the header is neither counted nor returned.
C8_Slice ==
    (RangeCall /\ res.arg[1] \in DOMAIN hist) =>
        LET k == Len(hist[res.arg[1]])
        IN  (1 <= RangeStart /\ RangeStart <= RangeEnd /\ RangeEnd <= k) =>
                /\ res.exc = ""
                /\ res.n = k
                /\ Len(res.rows) = RangeEnd - RangeStart + 1
                /\ \A i \in 1..Len(res.rows) :
                       /\ res.rows[i] = hist[res.arg[1]][RangeStart + i - 1]
                       /\ res.rows[i] # log_columns

\* all the rows of a file with more than one were returned
C8_Witness ==
    /\ RangeCall /\ res.exc = ""
    /\ res.arg[1] \in DOMAIN hist
    /\ RangeStart = 1 /\ RangeEnd = Len(hist[res.arg[1]])
    /\ Len(res.rows) >= 2

\* the keywords as the claim lists them, and a match that ignores case
ErrorKeywords ==
    {<<"e", "r", "r", "o", "r">>,
     <<"e", "x", "c", "e", "p", "t", "i", "o", "n">>,
     <<"f", "a", "i", "l", "e", "d">>,
     <<"m", "i", "s", "s", "i", "n", "g">>}
WarningKeywords ==
    {<<"w", "a", "r", "n", "i", "n", "g">>,
     <<"a", "w", "a", "r", "e">>,
     <<"c", "a", "r", "e", "f", "u", "l">>}

SameLetter(a, b) == a = b \/ \E k \in 1..26 : UpperCase[k] = a /\ LowerCase[k] = b

\* lower-case word w occurs in m whatever the case of m's letters
Occurs(m, w) ==
    \E i \in 1..(Len(m) - Len(w) + 1) :
        \A j \in 1..Len(w) : SameLetter(m[i + j - 1], w[j])

\* the message and the entry of a log() call that built one
Logged == res.op = "log" /\ res.rows # <<>>
LoggedMessage == res.arg[1]
LoggedSeverity == res.rows[1][2]

\* C9: the severity of an entry is 'error' when the message holds an error
\* keyword in any case, else 'warning' when it holds a warning keyword, else
\* 'message'; it is a function of the message alone.
C9_Severity ==
    Logged =>
        LoggedSeverity =
            IF \E w \in ErrorKeywords : Occurs(LoggedMessage, w) THEN <<"error">>
            ELSE IF \E w \in WarningKeywords : Occurs(LoggedMessage, w)
                 THEN <<"warning">>
                 ELSE <<"message">>

\* a second call logged a message with keywords of both kinds, one of them put
\* together from two pieces and in mixed case
C9_Witness ==
    /\ Logged /\ nlog >= 2
    /\ LoggedSeverity = <<"error">>
    /\ Occurs(LoggedMessage, <<"f", "a", "i", "l", "e", "d">>)
    /\ \E w \in WarningKeywords : Occurs(LoggedMessage, w)

\* what the fields of a written row look like
IsEntryRow(row) ==
    /\ Len(row) = 6
    /\ row[1] \in Timestamps
    /\ row[2] \in {<<"error">>, <<"warning">>, <<"message">>}
    /\ row[3] = process_name
    /\ row[4] = caller_location
    /\ row[5] \in Messages
    /\ row[6] \in {<<"0">>} \cup {IntStr(n) \o <<".", "0">> : n \in Times}

LoggedRequests == Requested(res.arg[2], res.arg[3], res.arg[4])

\* C11: with the database enabled a log() call that builds an entry never raises
\* because of the database, whatever it finds at the database path, and goes on
\* to send every notification requested.
C11_NeverRaises ==
    (Logged /\ cfg.log_enable_database) =>
        /\ res.exc = ""
        /\ Len(res.sent) = Len(LoggedRequests)

\* what a log() call that built an entry left behind
LoggedRow == res.rows[1]
FileWriteFailed ==
    \E i \in 1..Len(res.printed) : res.printed[i] = <<"Failed to write to log file">>
LastTimeAdvanced == last_time # <<>> /\ strftime_YmdHMS(last_time[1]) = LoggedRow[1]
Inserted == db.rows # <<>> /\ db.rows[Len(db.rows)] = LoggedRow
SentTo == [i \in 1..Len(res.sent) |-> res.sent[i].url]

\* C12: when the log file cannot be opened or written, log() returns without
\* an exception, _last_time is advanced all the same, and the other outputs
\* enabled are produced: terminal echo, database row, every notification
\* requested.
C12_FileFailureCaught ==
    (Logged /\ FileWriteFailed) =>
        /\ res.exc = ""
        /\ LastTimeAdvanced
        /\ cfg.log_enable_terminal_output => res.out # <<>>
        /\ cfg.log_enable_database => Inserted
        /\ SentTo = LoggedRequests

\* C13: when log() is asked to notify several destinations and some of the
\* POSTs fail, every destination requested is still tried exactly once, log()
\* returns without an exception, and the row it stored is the entry's.
C13_Isolated ==
    (Logged /\ LoggedRequests # <<>>) =>
        /\ res.exc = ""
        /\ Len(res.sent) = Len(LoggedRequests)
        /\ \A i \in 1..Len(LoggedRequests) :
               Cardinality({j \in 1..Len(res.sent) :
                               res.sent[j].url = LoggedRequests[i]}) = 1
        /\ \A i \in 1..Len(res.printed) :
               res.printed[i] = <<"Failed to write to log file">>
                   \/ \E j \in 1..Len(res.sent) :
                          ~res.sent[j].ok /\ res.printed[i][2] = res.sent[j].url
        /\ cfg.log_enable_database => Inserted

\* C14: with log_debug_mode off a log() call changes nothing: no file, no row,
\* no database row, nothing printed, no notification even with the flags set,
\* _last_time and _delta as they were, no exception.
C14_DisabledNoOp ==
    [][(Idle /\ res'.op = "log" /\ ~cfg.log_debug_mode) =>
          /\ fs' = fs /\ hist' = hist /\ db' = db
          /\ last_time' = last_time /\ delta' = delta
          /\ res'.rows = <<>> /\ res'.out = <<>> /\ res'.printed = <<>>
          /\ res'.sent = <<>> /\ res'.exc = ""]_vars

\* a call with every flag set returned while logging was off, every output
\* enabled, after a call that had logged
C14_Witness ==
    /\ res.op = "log" /\ ~cfg.log_debug_mode
    /\ res.arg[2] /\ res.arg[3] /\ res.arg[4]
    /\ cfg.log_enable_files /\ cfg.log_enable_terminal_output
    /\ cfg.log_enable_database
    /\ last_time # <<>>

\* the seconds an exec_time field stands for: '0', or str() of a float
ElapsedValue(field) ==
    IF Len(field) > 2 /\ field[Len(field) - 1] = "."
    THEN IntVal(SubSeq(field, 1, Len(field) - 2))
    ELSE IntVal(field)

\* C15: the first log() call that builds an entry records the elapsed time '0';
\* every later one records the time from the _last_time the call before it left
\* to the _last_time it leaves itself, which is also the entry's timestamp.
C15_Chained ==
    [][(Idle /\ res'.op = "log" /\ res'.rows # <<>>) =>
          /\ last_time' # <<>>
          /\ res'.rows[1][1] = strftime_YmdHMS(last_time'[1])
          /\ IF last_time = <<>> THEN res'.rows[1][6] = <<"0">>
             ELSE ElapsedValue(res'.rows[1][6]) = last_time'[1] - last_time[1]]_vars

\* what a get_page(n) call must end with, from the rows written
PageOutcome(n) ==
    IF Today \notin DOMAIN hist THEN "FileNotFoundError"
    ELSE IF n < 1 \/ n > PagesFor(Len(TodayRows), cfg.log_page_size)
    THEN "ValueError"
    ELSE ""

\* what a get_logs_in_range(date, s, e) call must end with
RangeOutcome(date, s, e) ==
    IF date \notin DOMAIN hist THEN "FileNotFoundError"
    ELSE IF s < 1 \/ e > Len(hist[date]) \/ s > e THEN "ValueError"
    ELSE ""

\* C16: get_page(n) raises ValueError exactly when n < 1 or n > total pages,
\* get_logs_in_range(date, s, e) exactly when s < 1, e > number of rows or
\* s > e; both raise FileNotFoundError when the file is missing; a call that
\* raises returns no rows, and no call changes a file.
C16_NoClamping ==
    [][(Idle /\ res'.op \in {"get_page", "get_logs_in_range"}) =>
          /\ fs' = fs
          /\ res'.op = "get_page" => res'.exc = PageOutcome(res'.arg[1])
          /\ res'.op = "get_logs_in_range" =>
                 res'.exc = RangeOutcome(res'.arg[1], res'.arg[2], res'.arg[3])
          /\ res'.exc # "" => res'.rows = <<>> /\ res'.cols = <<>>]_vars

\* page 1 was refused on a file that holds the header and no row
C16_Witness ==
    /\ res.op = "get_page" /\ res.exc = "ValueError"
    /\ res.arg[1] = 1
    /\ Today \in DOMAIN fs
    /\ TodayRows = <<>>

\* s is fourteen digits that spell a date and a time of day
IsTimestamp14(s) ==
    /\ Len(s) = 14
    /\ IsDigit(s)
    /\ IntVal(SubSeq(s, 1, 4)) >= 1
    /\ IntVal(SubSeq(s, 5, 6)) \in 1..12
    /\ IntVal(SubSeq(s, 7, 8)) \in
           1..DaysInMonth(IntVal(SubSeq(s, 1, 4)), IntVal(SubSeq(s, 5, 6)))
    /\ IntVal(SubSeq(s, 9, 10)) \in 0..23
    /\ IntVal(SubSeq(s, 11, 12)) \in 0..59
    /\ IntVal(SubSeq(s, 13, 14)) \in 0..59

\* of two such timestamps, a is the later one
IsLater(a, b) ==
    \E i \in 1..14 :
        /\ SubSeq(a, 1, i - 1) = SubSeq(b, 1, i - 1)
        /\ DigitVal(a[i]) > DigitVal(b[i])

\* C17: get_logs_between(t1, t2) raises ValueError exactly when t1 or t2 is not
\* a 14-digit timestamp of a real date and time or t1 is later than t2; t1 = t2
\* is accepted; a call that raises has read no file.
C17_Rejects ==
    (res.op = "get_logs_between") =>
        /\ (res.exc = "ValueError") =
               (\/ ~IsTimestamp14(res.arg[1])
                \/ ~IsTimestamp14(res.arg[2])
                \/ IsLater(res.arg[1], res.arg[2]))
        /\ res.exc \in {"", "ValueError"}
        /\ res.exc # "" => res.visited = <<>> /\ res.rows = <<>>

\* the days a get_logs_between call spans, those with a file and those without
BetweenDays == DayOf(BetweenFrom) .. DayOf(BetweenTo)
DaysWithFile == {d \in BetweenDays : PartitionOf(d) \in DOMAIN fs}
DaysWithoutFile == BetweenDays \ DaysWithFile

\* the rows written to the file of day d that lie in the interval asked for
RowsInInterval(d) ==
    SelectSeq(Written(d), LAMBDA row : TimeOfRow(row) \in BetweenFrom .. BetweenTo)

\* C18: for well-formed t1 <= t2, get_logs_between does not raise; a day of the
\* span without a file is skipped, with a note, and the rows of the other days
\* that lie in the interval are still returned; with no file in the span, or no
\* row in the interval, the result is empty.
C18_Tolerant ==
    (/\ res.op = "get_logs_between"
     /\ IsTimestamp14(res.arg[1]) /\ IsTimestamp14(res.arg[2])
     /\ ~IsLater(res.arg[1], res.arg[2])) =>
        /\ res.exc = ""
        /\ \A d \in DaysWithoutFile :
               \E i \in 1..Len(res.printed) :
                   res.printed[i] =
                       <<"Log file does not exist. Skipping.", date_strftime_Ymd(d)>>
        /\ DaysWithoutFile # {} =>
               \A d \in DaysWithFile : \A i \in 1..Len(RowsInInterval(d)) :
                   \E j \in 1..Len(res.rows) : res.rows[j] = RowsInInterval(d)[i]
        /\ (\A d \in DaysWithFile : RowsInInterval(d) = <<>>) => res.rows = <<>>

\* a is what is left of b when some of its elements are taken out
RECURSIVE IsSubsequence(_, _)
IsSubsequence(a, b) ==
    IF a = <<>> THEN TRUE
    ELSE IF b = <<>> THEN FALSE
    ELSE IF Head(a) = Head(b) THEN IsSubsequence(Tail(a), Tail(b))
    ELSE IsSubsequence(a, Tail(b))

\* the rows written to the files of the days spanned, day after day, each file
\* in the order written
WrittenInSpan ==
    Flatten([i \in 1..(DayOf(BetweenTo) - DayOf(BetweenFrom) + 1) |->
                Written(DayOf(BetweenFrom) + i - 1)])

\* C19: get_logs_between visits every day from t1's to t2's once, in ascending
\* order, and returns rows in that order of days and, within a day, in the
\* order written: the result is the rows written with some taken out, and its
\* timestamps never step back to an earlier day.
C19_Ordered ==
    BetweenReturned =>
        /\ res.visited =
               [i \in 1..(DayOf(BetweenTo) - DayOf(BetweenFrom) + 1) |->
                   date_strftime_Ymd(DayOf(BetweenFrom) + i - 1)]
        /\ IsSubsequence(res.rows, WrittenInSpan)
        /\ \A i, j \in 1..Len(res.rows) :
               i < j => DayOf(res.ts[i]) <= DayOf(res.ts[j])

\* rows of two days were returned, the earlier day first
C19_Witness ==
    /\ BetweenReturned
    /\ Len(res.rows) >= 2
    /\ DayOf(res.ts[1]) < DayOf(res.ts[Len(res.rows)])
    /\ Len(res.visited) >= 2

\* C20: a log() call that builds an entry sends one request to each destination
\* whose flag is set, to the address configured for it and with the entry's
\* message in the payload, and none to any other; with no flag set it sends
\* none.
C20_ExactlyRequested ==
    Logged =>
        /\ SentTo = LoggedRequests
        /\ res.arg[2] =>
               Cardinality({i \in 1..Len(res.sent) :
                               res.sent[i].url = "log_notification_telegram"}) = 1
        /\ \A i \in 1..Len(res.sent) : res.sent[i].json.message = LoggedMessage

\* C23: every data row of the file of a day has a timestamp that parses, with
\* the format it was written in, to a time of that day; this includes the rows
\* of calls made around midnight.
C23_DateAgrees ==
    \A name \in DOMAIN fs :
        LET rows == csv_reader(TextModeRead(fs[name]), cfg.log_delimiter)
        IN  \A i \in 2..Len(rows) :
                LET dt == strptime(rows[i][1])
                IN  dt.ok /\ strftime_Y_m_d(dt.t) = name

\* the day changed inside a call: the last entry was written in the last second
\* of day 0, the call began in that second (no time since the last entry) and
\* its entry is the first of the file of day 1, at 00:00:00
C23_Witness ==
    /\ Logged
    /\ delta = <<0>>
    /\ last_time = <<SecPerDay>>
    /\ strftime_Y_m_d(0) \in DOMAIN hist
    /\ strftime_Y_m_d(SecPerDay) \in DOMAIN hist
    /\ hist[strftime_Y_m_d(0)][Len(hist[strftime_Y_m_d(0)])][1]
           = strftime_YmdHMS(SecPerDay - 1)
    /\ hist[strftime_Y_m_d(SecPerDay)] = <<res.rows[1]>>
    /\ res.rows[1][1] = strftime_YmdHMS(SecPerDay)

IsPrefix(a, b) == Len(a) <= Len(b) /\ SubSeq(b, 1, Len(a)) = a

QueryOps ==
    {"get_page", "get_logs_in_range", "get_total_amount_of_pages",
     "read_logs_from_date", "get_logs_between"}

\* the rows of a file of the log directory, <<>> when there is no such file
RowsOfFile(files, name) ==
    IF name \in DOMAIN files
    THEN csv_reader(TextModeRead(files[name]), cfg.log_delimiter)
    ELSE <<>>

RECURSIVE CountRows(_, _)
CountRows(h, names) ==
    IF names = {} THEN 0
    ELSE LET name == CHOOSE n \in names : TRUE
         IN  Len(h[name]) + CountRows(h, names \ {name})

\* the calls of log() whose entry has been written
CompletedAppends == nlog - Cardinality(InFlight)

\* C21: while several processes log to the same directory, every row of every
\* file is the header row or a complete row of six fields as one call built
\* it, the rows of a file that are not the header row are the entries written
\* to it, each once and in the order of their writes, no entry was written to
\* a file that is not there, and over all files there are as many entries as
\* calls that have written theirs.
C21_RowIntegrity ==
    /\ \A name \in DOMAIN fs :
           LET rows == RowsOfFile(fs, name)
               data == SelectSeq(rows, LAMBDA row : row # log_columns)
           IN  /\ \A i \in 1..Len(rows) :
                      rows[i] = log_columns \/ IsEntryRow(rows[i])
               /\ data = (IF name \in DOMAIN hist THEN hist[name] ELSE <<>>)
    /\ DOMAIN hist \subseteq DOMAIN fs
    /\ CountRows(hist, DOMAIN hist) = CompletedAppends

\* one process has written the header and not yet its entry, and the entry of
\* another process is already in the file
C21_Witness ==
    \E p \in Procs, q \in Procs :
        /\ p # q
        /\ proc[p].pc = "header"
        /\ proc[q].pc = "idle"
        /\ proc[p].current_date \in DOMAIN hist
        /\ Len(hist[proc[p].current_date]) = 1
        /\ hist[proc[p].current_date][1][5] = MessageOf(q)
        /\ MessageOf(q) # MessageOf(p)

\* C22: when no call is in progress, every file that holds anything holds the
\* header row once, as its first row.
C22_HeaderOnce ==
    InFlight = {} =>
        \A name \in DOMAIN fs :
            LET rows == RowsOfFile(fs, name)
            IN  rows # <<>> =>
                    /\ rows[1] = log_columns
                    /\ Cardinality({i \in 1..Len(rows) : rows[i] = log_columns}) = 1

====
